---- MODULE Spec2Model ----
(***************************************************************************)
(* Model of the OpenAI model adapter of agent-poc                          *)
(* (src/src/agent_poc/openai_client.py): message translation               *)
(* (_format_messages, _format_messages_with_system), the non-streaming     *)
(* generate call and the lazy stream() event generator.                    *)
(***************************************************************************)
EXTENDS Integers, Sequences, FiniteSets, TLC

(***************************************************************************)
(* Bounds of the model.                                                    *)
(***************************************************************************)
MaxMsgs == 2
MaxBlocks == 2
MaxChunks == 2
MaxChoices == 2
MaxCalls == 2
MaxExtraPulls == 1
MaxOps == 3
MaxLen == 3

(***************************************************************************)
(* Python values.  Every value is a record tagged by k; a dict is a        *)
(* function from its keys to values, an object carries its attributes and  *)
(* the text str() gives for it.                                            *)
(***************************************************************************)
PyNone == [k |-> "none"]
PyStr(s) == [k |-> "str", s |-> s]
PyInt(n) == [k |-> "int", n |-> n]
PyList(items) == [k |-> "list", items |-> items]
PyDict(d) == [k |-> "dict", d |-> d]
PyObj(attrs, repr) == [k |-> "obj", attrs |-> attrs, repr |-> repr]
PyBool(b) == [k |-> "bool", b |-> b]
\* a float, held in tenths: PyFloat(7) is 0.7
PyFloat(t) == [k |-> "float", t |-> t]

\* hasattr(x, name)
hasattr(x, name) == x.k = "obj" /\ name \in DOMAIN x.attrs

\* isinstance(x, dict), isinstance(x, list)
isdict(x) == x.k = "dict"
islist(x) == x.k = "list"

\* truth value of x (if x: ...)
truthy(x) ==
    CASE x.k = "none" -> FALSE
      [] x.k = "str" -> x.s # ""
      [] x.k = "int" -> x.n # 0
      [] x.k = "list" -> x.items # <<>>
      [] x.k = "dict" -> DOMAIN x.d # {}
      [] x.k = "obj" -> TRUE
      [] x.k = "bool" -> x.b
      [] x.k = "float" -> x.t # 0

\* str(x): a string is itself, None is "None", an integer is its decimal
\* text, an object its repr.  (No list or dict reaches str() in this model.)
str(x) ==
    CASE x.k = "str" -> x.s
      [] x.k = "none" -> "None"
      [] x.k = "int" -> (CASE x.n = 0 -> "0" [] x.n = 42 -> "42")
      [] x.k = "obj" -> x.repr
      [] x.k = "dict" -> "{...}"
      [] x.k = "list" -> (IF x.items = <<>> THEN "[]" ELSE "[...]")

\* d.get(key): None when the key is missing
dictget(x, key) == IF key \in DOMAIN x.d THEN x.d[key] ELSE PyNone

\* d[key] = value
dictset(x, key, value) ==
    PyDict([f \in (DOMAIN x.d) \cup {key} |-> IF f = key THEN value ELSE x.d[f]])

\* float(x) and int(x) of a number; int() drops the fraction
py_float(x) == IF x.k = "int" THEN PyFloat(10 * x.n) ELSE x
py_int(x) == IF x.k = "float" THEN PyInt(x.t \div 10) ELSE x

\* a == b: numbers of either kind are equal when their values are
py_eq(a, b) ==
    IF a.k \in {"int", "float"} /\ b.k \in {"int", "float"}
    THEN py_float(a) = py_float(b)
    ELSE a = b

\* keyword arguments (**kwargs): a sequence of <<name, value>> pairs with
\* distinct names.  'key in kwargs', kwargs.get(key, default), and
\* {k: v for k, v in kwargs.items() if k not in names}
has_option(kw, key) == \E i \in 1..Len(kw) : kw[i][1] = key

option_or_default(kw, key, default) ==
    IF has_option(kw, key)
       /\ truthy(kw[CHOOSE i \in 1..Len(kw) : kw[i][1] = key][2])
    THEN kw[CHOOSE i \in 1..Len(kw) : kw[i][1] = key][2]
    ELSE default

option(kw, key, default) ==
    IF has_option(kw, key)
    THEN kw[CHOOSE i \in 1..Len(kw) : kw[i][1] = key][2]
    ELSE default

without(kw, names) == SelectSeq(kw, LAMBDA pair : pair[1] \notin names)

keys(kw) == [i \in 1..Len(kw) |-> kw[i][1]]

\* [f(x) for x in items]
Map(items, F(_)) == [i \in 1..Len(items) |-> F(items[i])]

(***************************************************************************)
(* OpenAIModel._format_messages (generate path).                           *)
(***************************************************************************)
format_message_user_role(msg) ==
    IF isdict(msg) THEN msg
    ELSE IF hasattr(msg, "role") /\ hasattr(msg, "content")
         THEN PyDict([role |-> PyStr("user"), content |-> msg.attrs.content])
    ELSE PyDict([role |-> PyStr("user"), content |-> PyStr(str(msg))])

format_message(msg) ==
    IF isdict(msg) THEN msg
    ELSE IF hasattr(msg, "role") /\ hasattr(msg, "content")
         THEN PyDict([role |-> msg.attrs.role, content |-> msg.attrs.content])
    ELSE PyDict([role |-> PyStr("user"), content |-> PyStr(str(msg))])

format_messages(msgs) == Map(msgs, format_message)

(***************************************************************************)
(* OpenAIModel._format_messages_with_system (stream path).                 *)
(***************************************************************************)
\* if 'type' not in block and 'text' in block: block['type'] = 'text'
tag_block(block) ==
    IF "type" \notin DOMAIN block.d /\ "text" \in DOMAIN block.d
    THEN dictset(block, "type", PyStr("text"))
    ELSE block

text_block(value) == PyDict([type |-> PyStr("text"), text |-> value])

\* one block of the content of a message exposing role/content
object_block(block) ==
    IF hasattr(block, "text") THEN text_block(block.attrs.text)
    ELSE IF isdict(block) THEN tag_block(block)
    ELSE text_block(PyStr(str(block)))

\* one block of the content of a dict message
dict_block(block) ==
    IF isdict(block) THEN tag_block(block)
    ELSE text_block(PyStr(str(block)))

\* the caller's block after the call: dict blocks are tagged in place
block_after(block) == IF isdict(block) THEN tag_block(block) ELSE block

\* if len(content_blocks) == 1 and content_blocks[0].get('type') == 'text'
single_text(content_blocks) ==
    /\ Len(content_blocks) = 1
    /\ dictget(content_blocks[1], "type") = PyStr("text")

\* Translation of one message: entry is what is appended to formatted,
\* after is the caller's message once the call has touched it, raised is
\* the exception the translation raises ("none" when it returns).
format_object_message(msg) ==
    LET role == msg.attrs.role
        content == msg.attrs.content
    IN  IF islist(content)
        THEN LET content_blocks == Map(content.items, object_block)
                 after == PyObj([f \in DOMAIN msg.attrs |->
                                    IF f = "content"
                                    THEN PyList(Map(content.items, block_after))
                                    ELSE msg.attrs[f]], msg.repr)
             IN  IF single_text(content_blocks)
                 THEN IF "text" \in DOMAIN content_blocks[1].d
                      THEN [raised |-> "none", after |-> after,
                            entry |-> PyDict([role |-> role,
                                              content |-> content_blocks[1].d.text])]
                      ELSE [raised |-> "KeyError", after |-> after, entry |-> PyNone]
                 ELSE [raised |-> "none", after |-> after,
                       entry |-> PyDict([role |-> role,
                                         content |-> PyList(content_blocks)])]
        ELSE [raised |-> "none", after |-> msg,
              entry |-> PyDict([role |-> role, content |-> PyStr(str(content))])]

format_dict_message(msg) ==
    IF "content" \in DOMAIN msg.d /\ islist(msg.d.content)
    THEN LET after == dictset(msg, "content",
                              PyList(Map(msg.d.content.items, dict_block)))
         IN  [raised |-> "none", after |-> after, entry |-> after]
    ELSE [raised |-> "none", after |-> msg, entry |-> msg]

format_message_with_system(msg) ==
    IF hasattr(msg, "role") /\ hasattr(msg, "content") THEN format_object_message(msg)
    ELSE IF isdict(msg) THEN format_dict_message(msg)
    ELSE [raised |-> "none", after |-> msg,
          entry |-> PyDict([role |-> PyStr("user"), content |-> PyStr(str(msg))])]

\* if system_prompt: formatted.append({'role': 'system', 'content': system_prompt})
system_entry_always(prompt) ==
    <<PyDict([role |-> PyStr("system"), content |-> prompt])>>

system_entry(prompt) ==
    IF truthy(prompt)
    THEN <<PyDict([role |-> PyStr("system"), content |-> prompt])>>
    ELSE <<>>

\* The whole loop: it stops at the first message whose translation raises;
\* the messages before it, and that message, have been touched.
format_messages_with_system(msgs, prompt) ==
    LET each == Map(msgs, format_message_with_system)
        bad == {i \in 1..Len(msgs) : each[i].raised # "none"}
        stop == IF bad = {} THEN Len(msgs) + 1
                ELSE CHOOSE i \in bad : \A j \in bad : i <= j
    IN  [raised |-> IF bad = {} THEN "none" ELSE each[stop].raised,
         formatted |-> IF bad = {}
                       THEN system_entry(prompt) \o Map(each, LAMBDA r : r.entry)
                       ELSE <<>>,
         after |-> [i \in 1..Len(msgs) |->
                       IF i <= stop THEN each[i].after ELSE msgs[i]]]

(***************************************************************************)
(* Inputs.  Blocks: an object exposing text, dicts with and without the    *)
(* type and text keys, and a value that is neither.                        *)
(***************************************************************************)
TextObject == PyObj([text |-> PyStr("hi")], "<TextBlock>")
UntaggedText == PyDict([text |-> PyStr("yo")])
TaggedText == PyDict([type |-> PyStr("text"), text |-> PyStr("ok")])
TaggedImage == PyDict([type |-> PyStr("image_url"), image_url |-> PyStr("u")])
UntypedToolUse == PyDict([toolUse |-> PyStr("t")])
TaggedNoText == PyDict([type |-> PyStr("text")])
Blocks == {TextObject, UntaggedText, TaggedText, TaggedImage, UntypedToolUse,
           TaggedNoText, PyInt(42)}

SeqsUpTo(S, n) == UNION {[1..m -> S] : m \in 0..n}

Roles == {PyStr("user"), PyStr("assistant")}
Scalars == {PyStr("2+2?"), PyNone}
Contents == Scalars \cup {PyList(b) : b \in SeqsUpTo(Blocks, MaxBlocks)}

DictMessage(role, content) == PyDict([role |-> role, content |-> content])
ObjectMessage(role, content) ==
    PyObj([role |-> role, content |-> content], "<Message>")

\* values that are neither a mapping nor an object exposing role and content
Unrecognized == {PyStr("hello"), PyInt(42), PyNone,
                 PyObj([role |-> PyStr("user")], "<RoleOnly>")}

Messages ==
    {DictMessage(r, c) : r \in Roles, c \in Contents}
    \cup {ObjectMessage(r, c) : r \in Roles, c \in Contents}
    \cup {PyDict([role |-> PyStr("user")])}
    \cup Unrecognized

\* one message for each path of the two translations
CoreMessages ==
    {DictMessage(PyStr("user"), PyStr("2+2?")),
     DictMessage(PyStr("assistant"), PyList(<<UntaggedText>>)),
     ObjectMessage(PyStr("assistant"), PyStr("2+2?")),
     ObjectMessage(PyStr("user"), PyList(<<TextObject>>)),
     ObjectMessage(PyStr("user"), PyList(<<UntaggedText, TaggedImage>>)),
     ObjectMessage(PyStr("user"), PyList(<<TaggedNoText>>)),
     PyStr("hello")}

\* every list of one message, and the longer lists over CoreMessages
MessageLists ==
    {<<m>> : m \in Messages} \cup SeqsUpTo(CoreMessages, MaxMsgs)

Prompts == {PyNone, PyStr(""), PyStr("Be terse")}

(***************************************************************************)
(* Backend values: the chunks of a streaming response (each with its list  *)
(* of choices, or without a choices attribute at all) and the message      *)
(* contents of a non-streaming response.                                   *)
(***************************************************************************)
Choice(content) == [content |-> content]
Chunks ==
    {[choices |-> <<Choice(PyStr("a"))>>],
     [choices |-> <<Choice(PyStr("b"))>>],
     [choices |-> <<Choice(PyStr(""))>>],
     [choices |-> <<Choice(PyNone)>>],
     [choices |-> <<Choice(PyNone), Choice(PyStr("b"))>>],
     [choices |-> <<>>],
     [usage |-> 7]}

ResponseContents == {PyNone, PyStr(""), PyStr("4")}
\* generate reads the first choice only: it has any of the contents, the
\* choices after it have text
Responses ==
    {<<>>} \cup
    {<<Choice(c)>> \o rest :
        c \in ResponseContents,
        rest \in SeqsUpTo({Choice(PyStr("4"))}, MaxChoices - 1)}

\* the message lists the caller passes to generate and stream
CallMessages ==
    {<<>>,
     <<DictMessage(PyStr("user"), PyStr("2+2?"))>>,
     <<ObjectMessage(PyStr("user"), PyList(<<TextObject>>)), PyStr("hello")>>,
     <<ObjectMessage(PyStr("user"), PyList(<<TaggedNoText>>))>>}

\* the options the caller passes to generate and stream
NoKwargs == <<>>
CallKwargs ==
    {NoKwargs,
     <<<<"temperature", PyInt(0)>>>>,
     <<<<"max_tokens", PyInt(16)>>, <<"top_p", PyInt(1)>>,
       <<"stream", PyBool(TRUE)>>>>}

\* the tool_specs the caller passes to stream
ToolSpecs ==
    {PyNone, PyList(<<>>), PyList(<<PyDict([name |-> PyStr("calculate")])>>)}

\* the arguments of update_config
UpdateKwargs ==
    {<<<<"temperature", PyInt(1)>>>>,
     <<<<"max_tokens", PyInt(256)>>, <<"model", PyStr("gpt-5")>>>>}

\* the errors the backend raises: transport and authentication
BackendErrors == {"BackendError", "AuthenticationError"}

\* the credential of the OpenAIConfig given to create_openai_model
ApiKeys == {PyNone, PyStr(""), PyStr("sk-test")}

\* OpenAIConfig defaults: openai_model, openai_temperature, openai_max_tokens
DefaultModel == PyStr("gpt-4o")
DefaultTemperature == PyFloat(7)
DefaultMaxTokens == PyInt(4096)

(***************************************************************************)
(* The keyword arguments of client.chat.completions.create.  names lists   *)
(* every keyword of the call, the named ones and then the extra options.   *)
(***************************************************************************)
\* generate: model, messages, temperature, max_tokens, **others
generate_request(msgs, kw, cfg) ==
    LET extra == without(kw, {"temperature", "max_tokens"})
    IN  [model |-> cfg.model,
         messages |-> format_messages(msgs),
         temperature |-> option(kw, "temperature", cfg.temperature),
         max_tokens |-> option(kw, "max_tokens", cfg.max_tokens),
         stream |-> truthy(option(extra, "stream", PyBool(FALSE))),
         extra |-> extra,
         names |-> <<"model", "messages", "temperature", "max_tokens">>
                   \o keys(extra)]

\* stream: model, messages, temperature, max_tokens, stream=True, **others;
\* tool_specs is a parameter of stream() that the call does not use
stream_request_with_tools(msgs, kw, cfg, tools) ==
    LET extra == without(kw, {"temperature", "max_tokens", "stream"})
                 \o (IF truthy(tools) THEN <<<<"tools", tools>>>> ELSE <<>>)
    IN  [model |-> cfg.model,
         messages |-> msgs,
         temperature |-> option(kw, "temperature", cfg.temperature),
         max_tokens |-> option(kw, "max_tokens", cfg.max_tokens),
         stream |-> TRUE,
         extra |-> extra,
         names |-> <<"model", "messages", "temperature", "max_tokens", "stream">>
                   \o keys(extra)]

stream_request(msgs, kw, cfg, tools) ==
    LET extra == without(kw, {"temperature", "max_tokens", "stream"})
    IN  [model |-> cfg.model,
         messages |-> msgs,
         temperature |-> option(kw, "temperature", cfg.temperature),
         max_tokens |-> option(kw, "max_tokens", cfg.max_tokens),
         stream |-> TRUE,
         extra |-> extra,
         names |-> <<"model", "messages", "temperature", "max_tokens", "stream">>
                   \o keys(extra)]

(***************************************************************************)
(* Stream events (strands.types.streaming), as stream() builds them.       *)
(***************************************************************************)
MessageStartEvent == [kind |-> "messageStart", role |-> "assistant"]
ContentBlockStartEvent == [kind |-> "contentBlockStart", contentBlockIndex |-> 0]
ContentBlockDeltaEvent_next_index(text) ==
    [kind |-> "contentBlockDelta", text |-> text, contentBlockIndex |-> 1]

ContentBlockDeltaEvent(text) ==
    [kind |-> "contentBlockDelta", text |-> text, contentBlockIndex |-> 0]
ContentBlockStopEvent == [kind |-> "contentBlockStop", contentBlockIndex |-> 0]
MessageStopEvent == [kind |-> "messageStop", stopReason |-> "end_turn"]

\* the test with "is not None" in place of the truth of the content
has_text_not_none(chunk) ==
    /\ "choices" \in DOMAIN chunk
    /\ chunk.choices # <<>>
    /\ chunk.choices[1].content # PyNone

\* if hasattr(chunk, 'choices') and chunk.choices and chunk.choices[0].delta.content
has_text(chunk) ==
    /\ "choices" \in DOMAIN chunk
    /\ chunk.choices # <<>>
    /\ truthy(chunk.choices[1].content)

\* content = response.choices[0].message.content; str(content) if content else ""
first_choice_content(response) ==
    LET content == response[1].content
    IN  content

first_choice_text(response) ==
    LET content == response[1].content
    IN  IF truthy(content) THEN PyStr(str(content)) ELSE PyStr("")

(***************************************************************************)
(* State.                                                                  *)
(***************************************************************************)
VARIABLES
    messages,       \* the caller's message list, as it is now
    original,       \* the message list as it was passed to the translation
    system_prompt,  \* the system prompt of the last stream() call or translation
    op,             \* the translation applied last (FormatSpec)
    formatted,      \* formatted_messages: the list the last translation built
    raised,         \* the exception the last translation or pull raised, or "none"
    calls,          \* number of generate() and stream() calls made so far
    stream_call,    \* which call created the current stream generator (0: none)
    pc,             \* where the stream generator stands
    events,         \* the events the generator has yielded, in order
    pulls,          \* number of times the consumer asked the generator for an event
    delivered,      \* what the last pull gave the consumer
    backend,        \* the backend's streaming response of the current generator
    chunks,         \* the backend chunks the generator has read
    sent,           \* number of backend requests the last call has issued
    request,        \* the request the last call sent to the backend
    response,       \* the backend's response to generate(), if it was the last call
    result,         \* what generate() returned or raised, if it was the last call
    backend_error,  \* the error the backend raised to the last call, or "none"
    api_key,        \* the credential of the configuration the adapter is built from
    adapter,        \* "none", "constructed", or "refused" (construction raised)
    client,         \* whether the backend client (self.client) has been created
    model_name,     \* self.model_name
    temperature,    \* self.temperature
    max_tokens,     \* self.max_tokens
    configured,     \* get_config() as it was after construction or the last update_config
    updated,        \* the arguments of the last update_config call
    kwargs,         \* the options (**kwargs) of the last call
    tool_specs,     \* the tool_specs of the last stream() call
    previous,       \* the generate() call before the last one: what it was given and sent
    called_with,    \* the configuration the last call started with
    schema,         \* the schema of the last structured_output() call
    output,         \* what structured_output() returned or raised, if it was the last call
    runs,           \* StrandsAgent.run calls made
    user_input,     \* the input of the last StrandsAgent.run call
    invocations,    \* the calls that run made on the wrapped agent (self.agent)
    reply,          \* what the wrapped agent answered to it
    run_result,     \* what StrandsAgent.run returned or raised
    wrapper,        \* the StrandsAgent's own fields: self.model, self.config
    exposes,        \* whether the strands Agent has a 'tools' attribute
    wrapped,        \* the wrapped agent, self.agent
    added,          \* the tools given to add_tool, in order
    resets,         \* reset_conversation calls made
    aws_config,     \* the AWSConfig given to create_bedrock_model
    bedrock_config, \* the BedrockConfig given to create_bedrock_model
    boto_session,   \* the keyword arguments boto3.Session was created with
    bedrock_model,  \* the keyword arguments BedrockModel was created with
    expression,     \* the argument of calculate
    evaluated,      \* whether calculate called eval, and what eval did
    calculated      \* what calculate returned or raised

format_vars == <<messages, original, system_prompt, op, formatted, raised>>
stream_vars == <<stream_call, pc, events, pulls, delivered, backend, chunks>>
call_vars == <<calls, sent, request, response, result>>
config_vars == <<api_key, adapter, client, model_name, temperature, max_tokens,
                 configured, updated>>
option_vars == <<kwargs, tool_specs, previous, called_with, schema, output>>
agent_vars == <<runs, user_input, invocations, reply, run_result>>
wrapper_vars == <<wrapper, exposes, wrapped, added, resets>>
bedrock_vars == <<aws_config, bedrock_config, boto_session, bedrock_model>>
calc_vars == <<expression, evaluated, calculated>>
side_vars == <<wrapper_vars, bedrock_vars, calc_vars>>
new_vars == <<config_vars, option_vars, agent_vars, side_vars>>
vars == <<format_vars, stream_vars, call_vars, backend_error, new_vars>>

\* OpenAIModel.get_config
get_config ==
    [model |-> model_name, temperature |-> temperature, max_tokens |-> max_tokens]

NoRequest == [messages |-> <<>>, stream |-> FALSE]
NoCall == [made |-> FALSE]
NoConfig == [model |-> PyNone, temperature |-> PyNone, max_tokens |-> PyNone]
NoResult == [status |-> "none", raised |-> "none", value |-> PyNone]

AdapterInit ==
    /\ system_prompt = PyNone
    /\ op = "none"
    /\ formatted = <<>>
    /\ raised = "none"
    /\ calls = 0
    /\ stream_call = 0
    /\ pc = "idle"
    /\ events = <<>>
    /\ pulls = 0
    /\ delivered = "none"
    /\ backend = "none"
    /\ chunks = <<>>
    /\ sent = 0
    /\ request = NoRequest
    /\ response = <<>>
    /\ result = NoResult
    /\ backend_error = "none"
    /\ updated = <<>>
    /\ kwargs = NoKwargs
    /\ tool_specs = PyNone
    /\ previous = NoCall
    /\ called_with = NoConfig
    /\ schema = PyNone
    /\ output = NoResult
    /\ runs = 0
    /\ user_input = PyNone
    /\ invocations = <<>>
    /\ reply = PyNone
    /\ run_result = NoResult

\* create_openai_model has built the adapter from a configuration with a key
Constructed ==
    /\ api_key = PyStr("sk-test")
    /\ adapter = "constructed"
    /\ client = "created"
    /\ model_name = DefaultModel
    /\ temperature = DefaultTemperature
    /\ max_tokens = DefaultMaxTokens
    /\ configured = get_config

\* no StrandsAgent has been built
NoWrapper ==
    /\ wrapper = PyNone
    /\ exposes = FALSE
    /\ wrapped = PyNone
    /\ added = <<>>
    /\ resets = 0

\* create_bedrock_model has not been called
NoBedrock ==
    /\ aws_config = PyNone
    /\ bedrock_config = PyNone
    /\ boto_session = PyNone
    /\ bedrock_model = PyNone

\* calculate has not been called
NoCalc ==
    /\ expression = <<>>
    /\ evaluated = [called |-> FALSE]
    /\ calculated = NoResult

(***************************************************************************)
(* The two translations applied to any input.                              *)
(***************************************************************************)
FormatInit ==
    /\ messages \in MessageLists
    /\ original = messages
    /\ AdapterInit
    /\ Constructed
    /\ NoWrapper
    /\ NoBedrock
    /\ NoCalc

ApplyFormatMessages ==
    /\ op = "none"
    /\ op' = "_format_messages"
    /\ original' = messages
    /\ formatted' = format_messages(messages)
    /\ raised' = "none"
    /\ UNCHANGED <<messages, system_prompt, stream_vars, call_vars,
                   backend_error, new_vars>>

ApplyFormatMessagesWithSystem ==
    /\ op = "none"
    /\ \E prompt \in Prompts :
         LET r == format_messages_with_system(messages, prompt)
         IN  /\ op' = "_format_messages_with_system"
             /\ original' = messages
             /\ system_prompt' = prompt
             /\ formatted' = r.formatted
             /\ raised' = r.raised
             /\ messages' = r.after
    /\ UNCHANGED <<stream_vars, call_vars, backend_error, new_vars>>

FormatNext == ApplyFormatMessages \/ ApplyFormatMessagesWithSystem

FormatSpec == FormatInit /\ [][FormatNext]_vars

(***************************************************************************)
(* The adapter in use: generate() calls, stream() calls, the consumer      *)
(* pulling events from the generator stream() returned, and the backend    *)
(* answering.  The backend client is synchronous, so nothing else runs     *)
(* while a pull waits for it (pc "create" and "loop").  The model follows  *)
(* one call at a time: a new call ends the observation of the generator    *)
(* of the call before it.                                                  *)
(***************************************************************************)
Init ==
    /\ messages \in CallMessages
    /\ original = messages
    /\ AdapterInit
    /\ Constructed
    /\ NoWrapper
    /\ NoBedrock
    /\ NoCalc

waiting == pc \in {"create", "loop"}

\* generate keeping the last reply in the conversation it sends
GenerateWith_remembers(kw, answers) ==
    /\ adapter = "constructed"
    /\ ~waiting
    /\ calls < MaxCalls
    /\ calls' = calls + 1
    /\ kwargs' = kw
    /\ called_with' = get_config
    /\ request' = [generate_request(messages, kw, get_config) EXCEPT
                      !.messages = @ \o (IF result.status = "returned"
                                         THEN <<PyDict([role |-> PyStr("assistant"),
                                                        content |-> result.value])>>
                                         ELSE <<>>)]
    /\ previous' = IF result.status # "none" /\ output.status = "none"
                   THEN [made |-> TRUE, messages |-> messages, kwargs |-> kwargs,
                         config |-> called_with, request |-> request,
                         result |-> result]
                   ELSE NoCall
    /\ sent' = 1
    /\ \/ \E e \in BackendErrors :
            /\ backend_error' = e
            /\ response' = <<>>
            /\ result' = [status |-> "raised", raised |-> e, value |-> PyNone]
       \/ \E r \in answers :
            /\ backend_error' = "none"
            /\ response' = r
            /\ result' = IF generate_request(messages, kw, get_config).stream
                         THEN [status |-> "raised", raised |-> "AttributeError",
                               value |-> PyNone]
                         ELSE IF r = <<>>
                         THEN [status |-> "raised", raised |-> "IndexError",
                               value |-> PyNone]
                         ELSE [status |-> "returned", raised |-> "none",
                               value |-> first_choice_text(r)]
    /\ stream_call' = 0
    /\ pc' = "idle"
    /\ events' = <<>>
    /\ pulls' = 0
    /\ delivered' = "none"
    /\ backend' = "none"
    /\ chunks' = <<>>
    /\ system_prompt' = PyNone
    /\ formatted' = <<>>
    /\ raised' = "none"
    /\ tool_specs' = PyNone
    /\ schema' = PyNone
    /\ output' = NoResult
    /\ UNCHANGED <<messages, original, op, config_vars, agent_vars, side_vars>>

\* OpenAIModel.generate with options kw: one backend call, which fails, or
\* answers with a list of choices (with a stream when stream=True was passed
\* through, and response.choices then raises)
GenerateWith(kw, answers) ==
    /\ adapter = "constructed"
    /\ ~waiting
    /\ calls < MaxCalls
    /\ calls' = calls + 1
    /\ kwargs' = kw
    /\ called_with' = get_config
    /\ request' = generate_request(messages, kw, get_config)
    /\ previous' = IF result.status # "none" /\ output.status = "none"
                   THEN [made |-> TRUE, messages |-> messages, kwargs |-> kwargs,
                         config |-> called_with, request |-> request,
                         result |-> result]
                   ELSE NoCall
    /\ sent' = 1
    /\ \/ \E e \in BackendErrors :
            /\ backend_error' = e
            /\ response' = <<>>
            /\ result' = [status |-> "raised", raised |-> e, value |-> PyNone]
       \/ \E r \in answers :
            /\ backend_error' = "none"
            /\ response' = r
            /\ result' = IF generate_request(messages, kw, get_config).stream
                         THEN [status |-> "raised", raised |-> "AttributeError",
                               value |-> PyNone]
                         ELSE IF r = <<>>
                         THEN [status |-> "raised", raised |-> "IndexError",
                               value |-> PyNone]
                         ELSE [status |-> "returned", raised |-> "none",
                               value |-> first_choice_text(r)]
    /\ stream_call' = 0
    /\ pc' = "idle"
    /\ events' = <<>>
    /\ pulls' = 0
    /\ delivered' = "none"
    /\ backend' = "none"
    /\ chunks' = <<>>
    /\ system_prompt' = PyNone
    /\ formatted' = <<>>
    /\ raised' = "none"
    /\ tool_specs' = PyNone
    /\ schema' = PyNone
    /\ output' = NoResult
    /\ UNCHANGED <<messages, original, op, config_vars, agent_vars, side_vars>>

Generate == GenerateWith(NoKwargs, Responses)

\* stream storing the temperature it was called with
StreamWith_keeps_options(prompt, tools, kw) ==
    /\ adapter = "constructed"
    /\ ~waiting
    /\ calls < MaxCalls
    /\ calls' = calls + 1
    /\ stream_call' = calls + 1
    /\ system_prompt' = prompt
    /\ tool_specs' = tools
    /\ kwargs' = kw
    /\ called_with' = get_config
    /\ pc' = "start"
    /\ events' = <<>>
    /\ pulls' = 0
    /\ delivered' = "none"
    /\ backend' = "none"
    /\ backend_error' = "none"
    /\ chunks' = <<>>
    /\ formatted' = <<>>
    /\ raised' = "none"
    /\ sent' = 0
    /\ request' = NoRequest
    /\ response' = <<>>
    /\ result' = NoResult
    /\ schema' = PyNone
    /\ output' = NoResult
    /\ previous' = NoCall
    /\ temperature' = option(kw, "temperature", temperature)
    /\ UNCHANGED <<messages, original, op, api_key, adapter, client, model_name,
                   max_tokens, configured, updated, agent_vars, side_vars>>

\* stream(messages, tool_specs, system_prompt, **kw) called: a generator is
\* created, none of its body has run
StreamWith(prompt, tools, kw) ==
    /\ adapter = "constructed"
    /\ ~waiting
    /\ calls < MaxCalls
    /\ calls' = calls + 1
    /\ stream_call' = calls + 1
    /\ system_prompt' = prompt
    /\ tool_specs' = tools
    /\ kwargs' = kw
    /\ called_with' = get_config
    /\ pc' = "start"
    /\ events' = <<>>
    /\ pulls' = 0
    /\ delivered' = "none"
    /\ backend' = "none"
    /\ backend_error' = "none"
    /\ chunks' = <<>>
    /\ formatted' = <<>>
    /\ raised' = "none"
    /\ sent' = 0
    /\ request' = NoRequest
    /\ response' = <<>>
    /\ result' = NoResult
    /\ schema' = PyNone
    /\ output' = NoResult
    /\ previous' = NoCall
    /\ UNCHANGED <<messages, original, op, config_vars, agent_vars, side_vars>>

StreamCall == \E prompt \in Prompts : StreamWith(prompt, PyNone, NoKwargs)

\* first pull: the messages are translated, then messageStart is yielded
PullStart_eager_request ==
    /\ pc = "start"
    /\ pulls' = pulls + 1
    /\ LET r == format_messages_with_system(messages, system_prompt)
       IN  /\ messages' = r.after
           /\ formatted' = r.formatted
           /\ raised' = r.raised
           /\ request' = stream_request(r.formatted, kwargs, get_config, tool_specs)
           /\ sent' = sent + 1
           /\ IF r.raised = "none"
              THEN /\ events' = Append(events, MessageStartEvent)
                   /\ pc' = "messageStart"
                   /\ delivered' = "event"
              ELSE /\ events' = events
                   /\ pc' = "failed"
                   /\ delivered' = "error"
    /\ UNCHANGED <<original, system_prompt, op, stream_call, backend, chunks,
                   calls, response, result>>
    /\ UNCHANGED <<backend_error, new_vars>>

PullStart ==
    /\ pc = "start"
    /\ pulls' = pulls + 1
    /\ LET r == format_messages_with_system(messages, system_prompt)
       IN  /\ messages' = r.after
           /\ formatted' = r.formatted
           /\ raised' = r.raised
           /\ IF r.raised = "none"
              THEN /\ events' = Append(events, MessageStartEvent)
                   /\ pc' = "messageStart"
                   /\ delivered' = "event"
              ELSE /\ events' = events
                   /\ pc' = "failed"
                   /\ delivered' = "error"
    /\ UNCHANGED <<original, system_prompt, op, stream_call, backend, chunks,
                   call_vars>>
    /\ UNCHANGED <<backend_error, new_vars>>

\* second pull: contentBlockStart is yielded
PullBlockStart ==
    /\ pc = "messageStart"
    /\ pulls' = pulls + 1
    /\ events' = Append(events, ContentBlockStartEvent)
    /\ pc' = "contentBlockStart"
    /\ delivered' = "event"
    /\ UNCHANGED <<format_vars, stream_call, backend, chunks, call_vars>>
    /\ UNCHANGED <<backend_error, new_vars>>

\* third pull: the streaming request is sent (client.chat.completions.create)
PullOpen ==
    /\ pc = "contentBlockStart"
    /\ pulls' = pulls + 1
    /\ pc' = "create"
    /\ delivered' = "pending"
    /\ backend' = "requested"
    /\ request' = stream_request(formatted, kwargs, get_config, tool_specs)
    /\ sent' = sent + 1
    /\ UNCHANGED <<format_vars, stream_call, events, chunks, calls, response,
                   result>>
    /\ UNCHANGED <<backend_error, new_vars>>

\* the backend accepts the request: the generator enters the chunk loop
BackendOpen ==
    /\ pc = "create"
    /\ backend' = "streaming"
    /\ pc' = "loop"
    /\ UNCHANGED <<format_vars, stream_call, events, pulls, delivered, chunks,
                   call_vars>>
    /\ UNCHANGED <<backend_error, new_vars>>

\* the backend fails on the request: create raises out of the generator
\* the failed request sent once more
BackendOpenFails_retries ==
    /\ pc = "create"
    /\ sent <= MaxCalls
    /\ sent' = sent + 1
    /\ \E e \in BackendErrors : backend_error' = e
    /\ UNCHANGED <<format_vars, stream_vars, calls, request, response, result>>
    /\ UNCHANGED new_vars

BackendOpenFails ==
    /\ pc = "create"
    /\ backend' = "broken"
    /\ pc' = "failed"
    /\ delivered' = "error"
    /\ \E e \in BackendErrors :
         /\ backend_error' = e
         /\ raised' = e
    /\ UNCHANGED <<messages, original, system_prompt, op, formatted,
                   stream_call, events, pulls, chunks, call_vars>>
    /\ UNCHANGED new_vars

\* the backend sends a chunk: a chunk with text is yielded as a delta, any
\* other chunk is skipped and the loop goes on reading
BackendChunkOf(chunk) ==
    /\ pc = "loop"
    /\ Len(chunks) < MaxChunks
    /\ chunks' = Append(chunks, chunk)
    /\ IF has_text(chunk)
       THEN /\ events' = Append(events,
                                ContentBlockDeltaEvent(chunk.choices[1].content.s))
            /\ pc' = "contentBlockDelta"
            /\ delivered' = "event"
       ELSE UNCHANGED <<events, pc, delivered>>
    /\ UNCHANGED <<format_vars, stream_call, pulls, backend, call_vars>>
    /\ UNCHANGED <<backend_error, new_vars>>

BackendChunk == \E chunk \in Chunks : BackendChunkOf(chunk)

\* the backend ends the response: the loop exits, contentBlockStop is yielded
BackendEnd_no_block_stop ==
    /\ pc = "loop"
    /\ backend' = "ended"
    /\ events' = Append(events, MessageStopEvent)
    /\ pc' = "messageStop"
    /\ delivered' = "event"
    /\ UNCHANGED <<format_vars, stream_call, pulls, chunks, call_vars>>
    /\ UNCHANGED <<backend_error, new_vars>>

BackendEnd ==
    /\ pc = "loop"
    /\ backend' = "ended"
    /\ events' = Append(events, ContentBlockStopEvent)
    /\ pc' = "contentBlockStop"
    /\ delivered' = "event"
    /\ UNCHANGED <<format_vars, stream_call, pulls, chunks, call_vars>>
    /\ UNCHANGED <<backend_error, new_vars>>

\* the backend fails while a chunk is read: the error leaves the generator
BackendChunkFails_closes_block ==
    /\ pc = "loop"
    /\ backend' = "broken"
    /\ \E e \in BackendErrors : backend_error' = e
    /\ events' = Append(events, ContentBlockStopEvent)
    /\ pc' = "contentBlockStop"
    /\ delivered' = "event"
    /\ UNCHANGED <<format_vars, stream_call, pulls, chunks, call_vars>>
    /\ UNCHANGED new_vars

BackendChunkFails ==
    /\ pc = "loop"
    /\ backend' = "broken"
    /\ pc' = "failed"
    /\ delivered' = "error"
    /\ \E e \in BackendErrors :
         /\ backend_error' = e
         /\ raised' = e
    /\ UNCHANGED <<messages, original, system_prompt, op, formatted,
                   stream_call, events, pulls, chunks, call_vars>>
    /\ UNCHANGED new_vars

\* a pull after a delta: the loop asks the backend for the next chunk
PullNextChunk ==
    /\ pc = "contentBlockDelta"
    /\ pulls' = pulls + 1
    /\ pc' = "loop"
    /\ delivered' = "pending"
    /\ UNCHANGED <<format_vars, stream_call, events, backend, chunks, call_vars>>
    /\ UNCHANGED <<backend_error, new_vars>>

\* messageStop carrying the finish reason of the last chunk that has one
PullMessageStop_reports_finish ==
    /\ pc = "contentBlockStop"
    /\ pulls' = pulls + 1
    /\ LET finished == {i \in 1..Len(chunks) :
                          /\ "choices" \in DOMAIN chunks[i]
                          /\ chunks[i].choices # <<>>
                          /\ "finish_reason" \in DOMAIN chunks[i].choices[1]
                          /\ chunks[i].choices[1].finish_reason # "none"}
           last == CHOOSE i \in finished : \A j \in finished : j <= i
       IN  events' = Append(events,
                            IF finished = {} THEN MessageStopEvent
                            ELSE [kind |-> "messageStop",
                                  stopReason |-> chunks[last].choices[1].finish_reason])
    /\ pc' = "messageStop"
    /\ delivered' = "event"
    /\ UNCHANGED <<format_vars, stream_call, backend, chunks, call_vars>>
    /\ UNCHANGED <<backend_error, new_vars>>

\* the pull after contentBlockStop: messageStop is yielded
PullMessageStop ==
    /\ pc = "contentBlockStop"
    /\ pulls' = pulls + 1
    /\ events' = Append(events, MessageStopEvent)
    /\ pc' = "messageStop"
    /\ delivered' = "event"
    /\ UNCHANGED <<format_vars, stream_call, backend, chunks, call_vars>>
    /\ UNCHANGED <<backend_error, new_vars>>

\* the pull after messageStop: the generator body returns
PullEnd ==
    /\ pc = "messageStop"
    /\ pulls' = pulls + 1
    /\ pc' = "done"
    /\ delivered' = "StopAsyncIteration"
    /\ UNCHANGED <<format_vars, stream_call, events, backend, chunks, call_vars>>
    /\ UNCHANGED <<backend_error, new_vars>>

\* a pull on a generator that has returned or raised: nothing runs
PullExhausted_restarts ==
    /\ pc \in {"done", "failed"}
    /\ pulls < Len(events) + 1 + MaxExtraPulls
    /\ pulls' = pulls + 1
    /\ pc' = "start"
    /\ delivered' = "StopAsyncIteration"
    /\ UNCHANGED <<format_vars, stream_call, events, backend, chunks, call_vars>>
    /\ UNCHANGED <<backend_error, new_vars>>

PullExhausted ==
    /\ pc \in {"done", "failed"}
    /\ pulls < Len(events) + 1 + MaxExtraPulls
    /\ pulls' = pulls + 1
    /\ delivered' = "StopAsyncIteration"
    /\ UNCHANGED <<format_vars, stream_call, pc, events, backend, chunks,
                   call_vars>>
    /\ UNCHANGED <<backend_error, new_vars>>

Pull ==
    \/ PullStart
    \/ PullBlockStart
    \/ PullOpen
    \/ PullNextChunk
    \/ PullMessageStop
    \/ PullEnd
    \/ PullExhausted

Backend ==
    \/ BackendOpen
    \/ BackendOpenFails
    \/ BackendChunk
    \/ BackendEnd
    \/ BackendChunkFails

Next == Generate \/ StreamCall \/ Pull \/ Backend

Spec == Init /\ [][Next]_vars

\* the consumer keeps pulling and the backend keeps answering
LiveSpec == Spec /\ WF_vars(Pull) /\ WF_vars(Backend)

(***************************************************************************)
(* The adapter from its construction on, called with options, tool specs   *)
(* and schemas, and reconfigured between calls.  The backend answers with  *)
(* one kind of chunk and a few responses.                                  *)
(***************************************************************************)
\* the message lists of these calls: one whose block structured_output and
\* stream tag in place, one they reject
OptionMessages ==
    {<<DictMessage(PyStr("user"), PyList(<<UntaggedText>>))>>,
     <<ObjectMessage(PyStr("user"), PyList(<<TaggedNoText>>))>>}

OptionsInit ==
    /\ messages \in OptionMessages
    /\ original = messages
    /\ AdapterInit
    /\ api_key \in ApiKeys
    /\ adapter = "none"
    /\ client = "none"
    /\ model_name = PyNone
    /\ temperature = PyNone
    /\ max_tokens = PyNone
    /\ configured = get_config
    /\ NoWrapper
    /\ NoBedrock
    /\ NoCalc

\* create_openai_model with the key check passing every key but None
CreateOpenAIModel_none_only ==
    /\ adapter = "none"
    /\ IF api_key = PyNone
       THEN /\ adapter' = "refused"
            /\ UNCHANGED <<client, model_name, temperature, max_tokens, configured>>
       ELSE /\ adapter' = "constructed"
            /\ client' = "created"
            /\ model_name' = DefaultModel
            /\ temperature' = DefaultTemperature
            /\ max_tokens' = DefaultMaxTokens
            /\ configured' = get_config'
    /\ UNCHANGED <<format_vars, stream_vars, call_vars, backend_error, api_key,
                   updated, option_vars, agent_vars, side_vars>>

\* create_openai_model(openai_config): ValueError when the key is missing,
\* else OpenAIModel.__init__ stores the fields and creates the client
CreateOpenAIModel ==
    /\ adapter = "none"
    /\ IF ~truthy(api_key)
       THEN /\ adapter' = "refused"
            /\ UNCHANGED <<client, model_name, temperature, max_tokens, configured>>
       ELSE /\ adapter' = "constructed"
            /\ client' = "created"
            /\ model_name' = DefaultModel
            /\ temperature' = DefaultTemperature
            /\ max_tokens' = DefaultMaxTokens
            /\ configured' = get_config'
    /\ UNCHANGED <<format_vars, stream_vars, call_vars, backend_error, api_key,
                   updated, option_vars, agent_vars, side_vars>>

\* OpenAIModel.update_config(**kw): temperature and max_tokens are the only
\* names it looks for.  The caller reconfigures between calls, or before the
\* first pull of a sequence.
UpdateConfigWith(kw) ==
    /\ adapter = "constructed"
    /\ pc \in {"idle", "start", "done", "failed"}
    /\ temperature' = IF has_option(kw, "temperature")
                      THEN py_float(option(kw, "temperature", PyNone))
                      ELSE temperature
    /\ max_tokens' = IF has_option(kw, "max_tokens")
                     THEN py_int(option(kw, "max_tokens", PyNone))
                     ELSE max_tokens
    /\ updated' = kw
    /\ UNCHANGED <<format_vars, stream_vars, call_vars, backend_error, api_key,
                   adapter, client, model_name, option_vars, agent_vars, side_vars>>
    /\ configured' = get_config'

UpdateConfig == \E kw \in UpdateKwargs : UpdateConfigWith(kw)

\* the responses and the chunk of this backend
OptionResponses == {<<Choice(PyStr("4"))>>, <<Choice(PyNone)>>}
TextChunk == [choices |-> <<Choice(PyStr("a"))>>]

\* the schemas given to structured_output
Schemas == {PyDict([type |-> PyStr("object")]), PyDict([type |-> PyStr("array")])}

GenerateOptions == \E kw \in CallKwargs : GenerateWith(kw, OptionResponses)

StreamOptions ==
    \E tools \in ToolSpecs, kw \in CallKwargs : StreamWith(PyNone, tools, kw)

\* OpenAIModel.structured_output(messages, schema, **kw): the messages are
\* translated (and the result dropped), then generate(messages, **kw) is
\* called and its text wrapped
StructuredOutput ==
    /\ adapter = "constructed"
    /\ ~waiting
    /\ calls < MaxCalls
    /\ calls' = calls + 1
    /\ \E sch \in Schemas, kw \in CallKwargs :
         LET r == format_messages_with_system(messages, PyNone)
         IN  /\ schema' = sch
             /\ system_prompt' = PyNone
             /\ tool_specs' = PyNone
             /\ kwargs' = kw
             /\ messages' = r.after
             /\ IF r.raised # "none"
                THEN /\ sent' = 0
                     /\ request' = NoRequest
                     /\ response' = <<>>
                     /\ result' = NoResult
                     /\ backend_error' = "none"
                     /\ output' = [status |-> "raised", raised |-> r.raised,
                                   value |-> PyNone]
                ELSE /\ sent' = 1
                     /\ request' = generate_request(r.after, kw, get_config)
                     /\ \/ \E e \in BackendErrors :
                             /\ backend_error' = e
                             /\ response' = <<>>
                             /\ result' = [status |-> "raised", raised |-> e,
                                           value |-> PyNone]
                             /\ output' = result'
                        \/ \E a \in OptionResponses :
                             /\ backend_error' = "none"
                             /\ response' = a
                             /\ IF generate_request(r.after, kw, get_config).stream
                                THEN /\ result' = [status |-> "raised",
                                                   raised |-> "AttributeError",
                                                   value |-> PyNone]
                                     /\ output' = result'
                                ELSE /\ result' = [status |-> "returned",
                                                   raised |-> "none",
                                                   value |-> first_choice_text(a)]
                                     /\ output' = [status |-> "returned",
                                                   raised |-> "none",
                                                   value |-> PyDict([response |->
                                                       first_choice_text(a)])]
    /\ previous' = NoCall
    /\ called_with' = get_config
    /\ stream_call' = 0
    /\ pc' = "idle"
    /\ events' = <<>>
    /\ pulls' = 0
    /\ delivered' = "none"
    /\ backend' = "none"
    /\ chunks' = <<>>
    /\ formatted' = <<>>
    /\ raised' = "none"
    /\ UNCHANGED <<original, op, config_vars, agent_vars, side_vars>>

BackendTextChunk == BackendChunkOf(TextChunk)

OptionsBackend ==
    \/ BackendOpen
    \/ BackendOpenFails
    \/ BackendTextChunk
    \/ BackendEnd
    \/ BackendChunkFails

OptionsNext ==
    \/ CreateOpenAIModel
    \/ UpdateConfig
    \/ GenerateOptions
    \/ StreamOptions
    \/ StructuredOutput
    \/ Pull
    \/ OptionsBackend

OptionsSpec == OptionsInit /\ [][OptionsNext]_vars


(***************************************************************************)
(* Properties of the translations.                                         *)
(***************************************************************************)
\* a message of a shape the translations recognize
recognized(m) == isdict(m) \/ (hasattr(m, "role") /\ hasattr(m, "content"))

\* role and content of a recognized input message (None when it has none)
role_of(m) == IF isdict(m) THEN dictget(m, "role") ELSE m.attrs.role
content_of(m) == IF isdict(m) THEN dictget(m, "content") ELSE m.attrs.content

\* number of entries the system prompt adds in front of the request
offset == Len(formatted) - Len(original)

\* the block a content block normalizes to, as the specification words it
specified_block(b) ==
    IF hasattr(b, "text") THEN text_block(b.attrs.text)
    ELSE IF isdict(b) /\ "type" \notin DOMAIN b.d /\ "text" \in DOMAIN b.d
         THEN dictset(b, "type", PyStr("text"))
    ELSE IF isdict(b) /\ "type" \in DOMAIN b.d THEN b
    ELSE IF isdict(b) THEN text_block(PyNone)
    ELSE text_block(PyStr(str(b)))

built == op = "_format_messages_with_system" /\ raised = "none"

\* C5: every message, of either shape, whose block list normalizes to one
\* block of type text carrying a text is sent with that text as its plain
\* string content.
C5_SingleTextCollapses ==
    built =>
      \A i \in 1..Len(original) :
         LET m == original[i] IN
         (/\ recognized(m)
          /\ islist(content_of(m))
          /\ Len(content_of(m).items) = 1
          /\ dictget(specified_block(content_of(m).items[1]), "type") = PyStr("text")
          /\ "text" \in DOMAIN specified_block(content_of(m).items[1]).d)
         => /\ offset \in {0, 1}
            /\ formatted[i + offset].d.content
                 = specified_block(content_of(m).items[1]).d.text

\* C6: in a request entry that keeps a block list, the list has the length
\* and order of the input blocks and each block is the normalization of the
\* input block at its position: text of a block exposing text, a dict with
\* text but no type tagged text, a dict with a type unchanged, anything else
\* a text block.
C6_BlocksNormalized ==
    built =>
      \A i \in 1..Len(original) :
         LET m == original[i] IN
         (/\ recognized(m)
          /\ islist(content_of(m))
          /\ offset \in {0, 1}
          /\ islist(formatted[i + offset].d.content))
         => LET ins == content_of(m).items
                outs == formatted[i + offset].d.content.items
            IN  /\ Len(outs) = Len(ins)
                /\ \A j \in 1..Len(ins) :
                     IF isdict(ins[j]) /\ DOMAIN ins[j].d \cap {"type", "text"} = {}
                     THEN dictget(outs[j], "type") = PyStr("text")
                     ELSE outs[j] = specified_block(ins[j])

\* C7: with a system prompt (non-empty) the request is one system message
\* followed by the translation of each input message in order; without one
\* it is the translations alone.
C7_SystemPrepended ==
    built =>
      /\ Len(formatted) = Len(original) + (IF truthy(system_prompt) THEN 1 ELSE 0)
      /\ truthy(system_prompt) =>
           formatted[1] = PyDict([role |-> PyStr("system"), content |-> system_prompt])
      /\ \A i \in 1..Len(original) :
           /\ formatted[i + offset] = format_message_with_system(original[i]).entry
           /\ formatted[i + offset].d.role
                = (IF recognized(original[i]) THEN role_of(original[i])
                   ELSE PyStr("user"))

C7_Witness ==
    /\ built
    /\ truthy(system_prompt)
    /\ Len(original) = 2
    /\ Len(formatted) = 3
    /\ original[1] # original[2]

\* C8: generate's request has one entry per input message, in order, and an
\* input message with plain string content keeps its role and content.
C8_GenerateKeepsRoleContent ==
    op = "_format_messages" =>
      /\ Len(formatted) = Len(original)
      /\ \A i \in 1..Len(original) :
           LET m == original[i] IN
           (recognized(m) /\ content_of(m).k = "str")
           => /\ formatted[i].d.role = role_of(m)
              /\ formatted[i].d.content = content_of(m)

C8_Witness ==
    /\ op = "_format_messages"
    /\ Len(original) = 2
    /\ original[1] = ObjectMessage(PyStr("assistant"), PyStr("2+2?"))
    /\ original[2] = DictMessage(PyStr("user"), PyStr("2+2?"))

\* C9: no translation raises, whatever the input, and a message that is
\* neither a mapping nor an object exposing role and content is sent as
\* {role: user, content: str(message)}.
C9_NeverRejected ==
    /\ raised = "none"
    /\ op # "none" =>
         \A i \in 1..Len(original) :
            ~recognized(original[i]) =>
               /\ offset \in {0, 1}
               /\ formatted[i + offset] =
                    PyDict([role |-> PyStr("user"),
                            content |-> PyStr(str(original[i]))])

(***************************************************************************)
(* Properties of stream() and generate().                                  *)
(***************************************************************************)
\* place of an event kind in the fixed order
rank(e) ==
    CASE e.kind = "messageStart" -> 1
      [] e.kind = "contentBlockStart" -> 2
      [] e.kind = "contentBlockDelta" -> 3
      [] e.kind = "contentBlockStop" -> 4
      [] e.kind = "messageStop" -> 5

\* ev is a beginning of: messageStart, contentBlockStart, deltas,
\* contentBlockStop, messageStop
ordered(ev) ==
    \/ ev = <<>>
    \/ /\ rank(ev[1]) = 1
       /\ \A i \in 2..Len(ev) :
            \/ rank(ev[i]) = rank(ev[i - 1]) + 1
            \/ rank(ev[i - 1]) = 3 /\ rank(ev[i]) = 3
            \/ rank(ev[i - 1]) = 2 /\ rank(ev[i]) = 4

deltas(ev) == {i \in 1..Len(ev) : ev[i].kind = "contentBlockDelta"}

\* the generator is suspended on a yield
suspended ==
    pc \in {"messageStart", "contentBlockStart", "contentBlockDelta",
            "contentBlockStop", "messageStop"}

\* C1: the events delivered so far are always a beginning of the fixed
\* order, and a sequence that came to its end is the whole of it:
\* messageStart, contentBlockStart, the deltas, contentBlockStop, messageStop,
\* each start and stop once, messageStop last.
C1_FixedEventOrder ==
    /\ ordered(events)
    /\ pc \in {"messageStop", "done"} =>
         /\ Len(events) >= 4
         /\ events[1].kind = "messageStart"
         /\ events[2].kind = "contentBlockStart"
         /\ events[Len(events) - 1].kind = "contentBlockStop"
         /\ events[Len(events)].kind = "messageStop"
         /\ \A i \in 3..(Len(events) - 2) : events[i].kind = "contentBlockDelta"
    /\ pc = "contentBlockStop" => events[Len(events)].kind = "contentBlockStop"

C1_Witness ==
    /\ pc = "done"
    /\ Cardinality(deltas(events)) = 2
    /\ Len(events) = 6

\* C2: when the backend fails, on the request or on a later chunk, that pull
\* gives the consumer the error and no event, and the failed sequence never
\* delivers anything again: its events stay as they were.
C2_FailureAborts ==
    [][/\ (backend' = "broken" /\ backend # "broken") =>
            /\ delivered' = "error"
            /\ raised' = backend_error'
            /\ raised' \in BackendErrors
            /\ pc' = "failed"
            /\ events' = events
       /\ (pc = "failed" /\ stream_call' = stream_call) =>
            /\ pc' = "failed"
            /\ events' = events
            /\ delivered' # "event"]_vars

C2_Witness ==
    /\ pc = "failed"
    /\ backend = "broken"
    /\ Len(chunks) = 1
    /\ Len(events) = 3
    /\ pulls = 5
    /\ delivered = "StopAsyncIteration"

\* C3: there are never more events than pulls; suspended on a yield the
\* generator has produced one event per pull, and waiting for the backend
\* one less; the backend is not contacted before the third pull; a chunk is
\* read only while a pull is waiting, and every chunk read with text has
\* been delivered or is the event of the pull that waits.
C3_PullBased ==
    /\ [](/\ Len(events) <= pulls
          /\ suspended => Len(events) = pulls
          /\ waiting => Len(events) = pulls - 1
          /\ (stream_call # 0 /\ (sent > 0 \/ backend # "none" \/ chunks # <<>>)) =>
               (pulls >= 3 /\ Len(events) >= 2)
          /\ Cardinality({i \in 1..Len(chunks) : has_text(chunks[i])})
               = Cardinality(deltas(events)))
    /\ [][(chunks' # chunks /\ stream_call' = stream_call) =>
            /\ waiting
            /\ Len(chunks') = Len(chunks) + 1
            /\ Len(events') <= pulls']_vars

C3_Witness ==
    /\ pc = "contentBlockDelta"
    /\ Len(chunks) = 2
    /\ ~has_text(chunks[1])
    /\ pulls = 3
    /\ Len(events) = 3

\* C4: a started sequence comes to its end (after messageStop, or on an
\* error) unless the caller leaves it for a new call; an ended sequence
\* delivers no further event and sends nothing to the backend, whatever is
\* pulled; events flow again only from a new stream() call, which starts
\* empty and issues its own single request.
C4_FiniteNotRestartable ==
    /\ \A c \in 1..MaxCalls :
         (stream_call = c /\ pc = "start")
            ~> (stream_call # c \/ pc \in {"done", "failed"})
    /\ [](pc = "done" =>
            /\ events[Len(events)].kind = "messageStop"
            /\ sent = 1
            /\ request.stream
            /\ request.messages = formatted)
    /\ [](pc = "failed" => raised # "none")
    /\ [][(pc \in {"done", "failed"} /\ stream_call' = stream_call) =>
            /\ pc' = pc
            /\ events' = events
            /\ chunks' = chunks
            /\ backend' = backend
            /\ sent' = sent
            /\ request' = request]_vars
    /\ [][(stream_call' # stream_call /\ stream_call' # 0) =>
            /\ pc' = "start"
            /\ events' = <<>>
            /\ sent' = 0]_vars

C4_Witness ==
    /\ stream_call = 2
    /\ pc = "done"
    /\ pulls = Len(events) + 2
    /\ delivered = "StopAsyncIteration"
    /\ sent = 1

\* C10: generate returns the text of the first choice of the response, the
\* empty string when that content is None or empty, and never None.
C10_FirstChoiceText ==
    result.status = "returned" =>
      /\ response # <<>>
      /\ result.value.k = "str"
      /\ result.value = (IF response[1].content \in {PyNone, PyStr("")}
                         THEN PyStr("")
                         ELSE response[1].content)

C10_Witness ==
    /\ result.status = "returned"
    /\ Len(response) = 2
    /\ response[1].content = PyNone
    /\ response[2].content = PyStr("4")
    /\ result.value = PyStr("")

(***************************************************************************)
(* StrandsAgent (agent.py): the wrapper around the strands Agent, which    *)
(* is self.agent.                                                          *)
(***************************************************************************)
UserInputs == {PyStr("Hello"), PyStr("2+2?")}

\* what the wrapped agent answers: a result with a message with content (a
\* string or a list of blocks), with a message without content, without a
\* message
AgentMessages ==
    {PyObj([content |-> c], "<Message>") :
        c \in {PyStr("Test response from agent")}
              \cup {PyList(b) : b \in SeqsUpTo({TextObject, UntaggedText}, MaxBlocks)}}
    \cup {PyObj([role |-> PyStr("assistant")], "<Message>")}

AgentReplies ==
    {PyObj([message |-> m], "<AgentResult>") : m \in AgentMessages}
    \cup {PyObj([messages |-> PyList(<<>>)], "<AgentResult>")}

\* the string run extracts from the wrapped agent's response
agent_response(res) ==
    IF hasattr(res, "message")
    THEN IF hasattr(res.attrs.message, "content")
         THEN IF islist(res.attrs.message.attrs.content)
                 /\ Len(res.attrs.message.attrs.content.items) > 0
              THEN IF hasattr(res.attrs.message.attrs.content.items[1], "text")
                   THEN res.attrs.message.attrs.content.items[1].attrs.text
                   ELSE PyStr(str(res.attrs.message.attrs.content.items[1]))
              ELSE PyStr(str(res.attrs.message.attrs.content))
         ELSE PyStr(str(res.attrs.message))
    ELSE PyStr(str(res))

\* StrandsAgent.run(user_input): self.agent(user_input), then the text is
\* extracted; an exception of the wrapped agent is logged and raised again
Run ==
    /\ runs < MaxCalls
    /\ runs + Len(added) + resets < MaxOps
    /\ runs' = runs + 1
    /\ \E input \in UserInputs :
         /\ user_input' = input
         /\ invocations' = <<[method |-> "__call__", args |-> <<input>>,
                             kwargs |-> <<>>]>>
    /\ \/ /\ reply' = PyNone
          /\ run_result' = [status |-> "raised", raised |-> "AgentError",
                            value |-> PyNone]
          /\ wrapped' = wrapped
       \/ \E r \in AgentReplies :
            /\ reply' = r
            /\ run_result' = [status |-> "returned", raised |-> "none",
                              value |-> agent_response(r)]
            /\ wrapped' = [wrapped EXCEPT !.messages = Append(@, user_input')]
    /\ UNCHANGED <<format_vars, stream_vars, call_vars, backend_error,
                   config_vars, option_vars, wrapper, exposes, added, resets,
                   bedrock_vars, calc_vars>>

\* the tool functions of tools.py, by name
Tools == {"calculate", "get_current_time"}

\* the tools and system_prompt arguments of StrandsAgent(...)
InitialTools == {PyNone, PyList(<<"calculate">>)}
SystemPrompts == {PyNone, PyStr("Be terse")}
DefaultSystemPrompt == PyStr("You are a helpful AI assistant")
AgentName == PyStr("strands-poc-agent")

\* Agent(model=, tools=, system_prompt=, name=) of the strands library: a new
\* agent with no messages, which has a 'tools' attribute or has none
new_agent(model, tools, prompt, name) ==
    [model |-> model,
     given_tools |-> tools,
     tools |-> IF exposes THEN PyList(tools) ELSE PyNone,
     system_prompt |-> prompt,
     name |-> name,
     messages |-> <<>>]

\* getattr(self.agent, 'tools', [])
tools_list == IF wrapped.tools = PyNone THEN <<>> ELSE wrapped.tools.items

\* StrandsAgent.__init__(model, config, tools, system_prompt)
WrapperInit ==
    /\ exposes \in BOOLEAN
    /\ wrapper = [model |-> "model", config |-> [agent_name |-> AgentName]]
    /\ \E tools \in InitialTools, prompt \in SystemPrompts :
         wrapped = new_agent(wrapper.model,
                             IF truthy(tools) THEN tools.items ELSE <<>>,
                             IF truthy(prompt) THEN prompt ELSE DefaultSystemPrompt,
                             wrapper.config.agent_name)
    /\ added = <<>>
    /\ resets = 0

\* StrandsAgent.add_tool(tool): appends to getattr(self.agent, 'tools', []),
\* which is the agent's list, or a list nobody else holds
AddTool ==
    /\ runs + Len(added) + resets < MaxOps
    /\ \E tool \in Tools :
         /\ added' = Append(added, tool)
         /\ wrapped' = IF wrapped.tools = PyNone
                       THEN wrapped
                       ELSE [wrapped EXCEPT !.tools = PyList(Append(tools_list, tool))]
    /\ UNCHANGED <<format_vars, stream_vars, call_vars, backend_error,
                   config_vars, option_vars, agent_vars, wrapper, exposes,
                   resets, bedrock_vars, calc_vars>>

\* StrandsAgent.reset_conversation(): self.agent becomes a new Agent built
\* from self.model, the old agent's tools attribute (or []), its
\* system_prompt, and self.config.agent_name
ResetConversation ==
    /\ runs + Len(added) + resets < MaxOps
    /\ resets' = resets + 1
    /\ wrapped' = new_agent(wrapper.model, tools_list, wrapped.system_prompt,
                            wrapper.config.agent_name)
    /\ UNCHANGED <<format_vars, stream_vars, call_vars, backend_error,
                   config_vars, option_vars, agent_vars, wrapper, exposes,
                   added, bedrock_vars, calc_vars>>

AgentInit ==
    /\ messages = <<>>
    /\ original = messages
    /\ AdapterInit
    /\ Constructed
    /\ WrapperInit
    /\ NoBedrock
    /\ NoCalc

AgentNext == Run \/ AddTool \/ ResetConversation

AgentSpec == AgentInit /\ [][AgentNext]_vars

(***************************************************************************)
(* Streams whose chunks carry the backend's finish reason: the last chunk  *)
(* of a response has no content and names why the response ended.          *)
(***************************************************************************)
FinishReasons == {"stop", "length", "tool_calls", "content_filter"}

FinishChoice(content, reason) == [content |-> content, finish_reason |-> reason]

FinishChunks ==
    {[choices |-> <<FinishChoice(PyStr("a"), "none")>>]}
    \cup {[choices |-> <<FinishChoice(PyNone, reason)>>] : reason \in FinishReasons}

FinishInit ==
    /\ messages = <<DictMessage(PyStr("user"), PyStr("2+2?"))>>
    /\ original = messages
    /\ AdapterInit
    /\ Constructed
    /\ NoWrapper
    /\ NoBedrock
    /\ NoCalc

FinishStream == StreamWith(PyNone, PyNone, NoKwargs)

BackendFinishChunk == \E chunk \in FinishChunks : BackendChunkOf(chunk)

FinishBackend ==
    \/ BackendOpen
    \/ BackendOpenFails
    \/ BackendFinishChunk
    \/ BackendEnd
    \/ BackendChunkFails

FinishNext == FinishStream \/ Pull \/ FinishBackend

FinishSpec == FinishInit /\ [][FinishNext]_vars

(***************************************************************************)
(* create_bedrock_model (bedrock_client.py).                               *)
(***************************************************************************)
AwsConfigs ==
    [aws_region : {PyStr("us-east-1"), PyStr("eu-west-1")},
     aws_access_key_id : {PyNone, PyStr(""), PyStr("AKIA")},
     aws_secret_access_key : {PyNone, PyStr(""), PyStr("secret")},
     aws_session_token : {PyNone, PyStr(""), PyStr("token")}]

BedrockConfigs ==
    [bedrock_model_id : {PyStr("anthropic.claude-3-sonnet-20240229-v1:0"),
                         PyStr("amazon.titan-text-express-v1")},
     bedrock_temperature : {PyFloat(7)},
     bedrock_max_tokens : {PyInt(4096)}]

\* the session arguments with every credential field passed, set or not
session_kwargs_all(cfg) ==
    <<<<"region_name", cfg.aws_region>>,
      <<"aws_access_key_id", cfg.aws_access_key_id>>,
      <<"aws_secret_access_key", cfg.aws_secret_access_key>>,
      <<"aws_session_token", cfg.aws_session_token>>>>

\* session_kwargs: the region, and each credential field that is set
session_kwargs(cfg) ==
    <<<<"region_name", cfg.aws_region>>>>
    \o (IF truthy(cfg.aws_access_key_id)
        THEN <<<<"aws_access_key_id", cfg.aws_access_key_id>>>> ELSE <<>>)
    \o (IF truthy(cfg.aws_secret_access_key)
        THEN <<<<"aws_secret_access_key", cfg.aws_secret_access_key>>>> ELSE <<>>)
    \o (IF truthy(cfg.aws_session_token)
        THEN <<<<"aws_session_token", cfg.aws_session_token>>>> ELSE <<>>)

BedrockInit ==
    /\ messages = <<>>
    /\ original = messages
    /\ AdapterInit
    /\ Constructed
    /\ NoWrapper
    /\ NoCalc
    /\ aws_config \in AwsConfigs
    /\ bedrock_config \in BedrockConfigs
    /\ boto_session = PyNone
    /\ bedrock_model = PyNone

\* create_bedrock_model(aws_config, bedrock_config): boto3.Session(**kwargs),
\* then BedrockModel(model_id=, boto_session=, temperature=, max_tokens=)
CreateBedrockModel ==
    /\ bedrock_model = PyNone
    /\ boto_session' = session_kwargs(aws_config)
    /\ bedrock_model' = [model_id |-> bedrock_config.bedrock_model_id,
                         boto_session |-> boto_session',
                         temperature |-> bedrock_config.bedrock_temperature,
                         max_tokens |-> bedrock_config.bedrock_max_tokens]
    /\ UNCHANGED <<format_vars, stream_vars, call_vars, backend_error,
                   config_vars, option_vars, agent_vars, wrapper_vars,
                   aws_config, bedrock_config, calc_vars>>

BedrockNext == CreateBedrockModel

BedrockSpec == BedrockInit /\ [][BedrockNext]_vars

(***************************************************************************)
(* calculate (tools.py).  An expression is the sequence of its characters. *)
(***************************************************************************)
\* set("0123456789+-*/(). ")
allowed_chars ==
    {"0", "1", "2", "3", "4", "5", "6", "7", "8", "9",
     "+", "-", "*", "/", "(", ")", ".", " "}

\* the characters of the expressions given to calculate
ExprChars == {"1", "0", "/", " ", "o"}
Expressions == SeqsUpTo(ExprChars, MaxLen)

\* what eval does with an expression is the interpreter's: it returns a
\* value (here as str() renders it) or raises
NoEval == [called |-> FALSE]
EvalOutcomes ==
    {[called |-> TRUE, raised |-> "none", message |-> "", value |-> "4"],
     [called |-> TRUE, raised |-> "none", message |-> "", value |-> "5.0"],
     [called |-> TRUE, raised |-> "ZeroDivisionError",
      message |-> "division by zero", value |-> ""],
     [called |-> TRUE, raised |-> "SyntaxError",
      message |-> "invalid syntax", value |-> ""]}

\* all(c in allowed_chars for c in expression)
all_allowed(expr) == \A i \in 1..Len(expr) : expr[i] \in allowed_chars

\* calculate with eval outside the try block
calculate_unguarded(expr, outcome) ==
    IF ~all_allowed(expr)
    THEN [status |-> "returned", raised |-> "none",
          value |-> <<"Error: Expression contains invalid characters">>]
    ELSE IF outcome.raised # "none"
    THEN [status |-> "raised", raised |-> outcome.raised, value |-> <<>>]
    ELSE [status |-> "returned", raised |-> "none", value |-> <<outcome.value>>]

\* calculate(expression), eval doing outcome: the strings it returns are
\* sequences of the pieces they are put together from
calculate(expr, outcome) ==
    IF ~all_allowed(expr)
    THEN [status |-> "returned", raised |-> "none",
          value |-> <<"Error: Expression contains invalid characters">>]
    ELSE IF outcome.raised # "none"
    THEN [status |-> "returned", raised |-> "none",
          value |-> <<"Error: ", outcome.message>>]
    ELSE [status |-> "returned", raised |-> "none", value |-> <<outcome.value>>]

CalcInit ==
    /\ messages = <<>>
    /\ original = messages
    /\ AdapterInit
    /\ Constructed
    /\ NoWrapper
    /\ NoBedrock
    /\ expression \in Expressions
    /\ evaluated = NoEval
    /\ calculated = NoResult

Calculate ==
    /\ calculated.status = "none"
    /\ \E outcome \in EvalOutcomes :
         /\ evaluated' = IF all_allowed(expression) THEN outcome ELSE NoEval
         /\ calculated' = calculate(expression, outcome)
    /\ UNCHANGED <<format_vars, stream_vars, call_vars, backend_error,
                   config_vars, option_vars, agent_vars, wrapper_vars,
                   bedrock_vars, expression>>

CalcNext == Calculate

CalcSpec == CalcInit /\ [][CalcNext]_vars

(***************************************************************************)
(* Options, tool specs, configuration, construction.                       *)
(***************************************************************************)
\* a backend request is sent in this step
sending == sent' = 1 /\ (sent = 0 \/ calls' # calls)

\* the value the caller passed for an option; only used where one was passed
passed(kw, key) == kw[CHOOSE i \in 1..Len(kw) : kw[i][1] = key][2]

\* how many times a keyword appears in a call
times(names, key) == Cardinality({i \in 1..Len(names) : names[i] = key})

\* C11: the request of generate and of stream carries, for temperature and
\* for max_tokens, the caller's option when the call was given one and else
\* the adapter's configured value at that moment; each is settled on its
\* own, and each keyword appears once in the request.
C11_OptionsResolved ==
    [][sending =>
         /\ request'.temperature =
              (IF \E i \in 1..Len(kwargs') : kwargs'[i][1] = "temperature"
               THEN passed(kwargs', "temperature") ELSE temperature)
         /\ request'.max_tokens =
              (IF \E i \in 1..Len(kwargs') : kwargs'[i][1] = "max_tokens"
               THEN passed(kwargs', "max_tokens") ELSE max_tokens)
         /\ times(request'.names, "temperature") = 1
         /\ times(request'.names, "max_tokens") = 1]_vars

C11_Witness ==
    /\ pc = "create"
    /\ sent = 1
    /\ request.stream
    /\ kwargs = <<<<"temperature", PyInt(0)>>>>
    /\ request.temperature = PyInt(0)
    /\ max_tokens = PyInt(256)
    /\ request.max_tokens = PyInt(256)

\* the events stream() gives for the chunks chs, whatever else it was passed
chunk_events(chs) ==
    [i \in 1..Len(SelectSeq(chs, has_text)) |->
        [kind |-> "contentBlockDelta",
         text |-> SelectSeq(chs, has_text)[i].choices[1].content.s,
         contentBlockIndex |-> 0]]

expected_events(chs) ==
    <<MessageStartEvent, ContentBlockStartEvent>> \o chunk_events(chs)
    \o <<ContentBlockStopEvent, MessageStopEvent>>

is_prefix(a, b) == Len(a) <= Len(b) /\ SubSeq(b, 1, Len(a)) = a

\* C12: stream takes any tool_specs and never forwards it: the request is
\* the request of the same call without tool_specs, no keyword of it names
\* or carries the tool specs, no error comes from them, and the events are
\* those the chunks alone determine.
C12_ToolSpecsIgnored ==
    (stream_call > 0) =>
      /\ sent = 1 =>
           /\ DOMAIN request = {"model", "messages", "temperature", "max_tokens",
                                "stream", "extra", "names"}
           /\ request.stream
           /\ request.messages = formatted
           /\ request.extra =
                SelectSeq(kwargs, LAMBDA pair :
                    pair[1] \notin {"temperature", "max_tokens", "stream"})
           /\ request.names =
                <<"model", "messages", "temperature", "max_tokens", "stream">>
                \o [i \in 1..Len(request.extra) |-> request.extra[i][1]]
           /\ \A i \in 1..Len(request.extra) : request.extra[i][2] # tool_specs
      /\ raised \in {"none", "KeyError"} \cup BackendErrors
      /\ is_prefix(events, expected_events(chunks))

C12_Witness ==
    /\ stream_call > 0
    /\ truthy(tool_specs)
    /\ pc = "done"
    /\ sent = 1
    /\ Len(events) = 5

\* C14: built from a configuration with no API key (None or empty), the
\* adapter is refused with a ValueError before anything is created: no
\* instance, no backend client, no request.
C14_NoKeyRefused ==
    /\ api_key \in {PyNone, PyStr("")} =>
         /\ adapter \in {"none", "refused"}
         /\ client = "none"
         /\ model_name = PyNone
         /\ sent = 0
         /\ calls = 0
    /\ adapter = "refused" => api_key \in {PyNone, PyStr("")}

C14_Witness ==
    /\ adapter = "refused"
    /\ api_key = PyStr("")
    /\ client = "none"

\* C15: a backend failure in generate or stream is the error the caller
\* gets, and nothing is sent again: a call never has more than one request,
\* and a call that got an answer or a failure from the backend sent one.
C15_FailurePropagatesOnce ==
    /\ sent <= 1
    /\ backend_error # "none" =>
         /\ sent = 1
         /\ backend_error \in BackendErrors
         /\ IF stream_call > 0
            THEN raised = backend_error /\ pc = "failed" /\ backend = "broken"
            ELSE result = [status |-> "raised", raised |-> backend_error,
                           value |-> PyNone]
    /\ (result.status # "none" \/ backend # "none" \/ pc = "done") => sent = 1

C15_Witness ==
    /\ stream_call > 0
    /\ backend_error = "AuthenticationError"
    /\ raised = "AuthenticationError"
    /\ delivered = "error"
    /\ Len(chunks) = 1
    /\ sent = 1

\* C16: no call changes the configuration: a step of generate, stream (its
\* pulls and the backend's answers included) or structured_output leaves
\* model name, temperature and max_tokens as they were, with or without
\* options and when the backend fails; the configuration changes in
\* update_config only, so get_config is always what it was after the last
\* update_config (or after construction).
C16_ConfigReadOnly ==
    /\ [](get_config = configured)
    /\ [][(calls' # calls \/ pulls' # pulls \/ backend' # backend \/ pc' # pc)
            => get_config' = get_config]_vars
    /\ [][get_config' # get_config => (UpdateConfig \/ CreateOpenAIModel)]_vars

C16_Witness ==
    /\ stream_call > 0
    /\ pc = "failed"
    /\ backend_error # "none"
    /\ kwargs = <<<<"temperature", PyInt(0)>>>>
    /\ request.temperature = PyInt(0)
    /\ updated = <<<<"temperature", PyInt(1)>>>>
    /\ get_config = [model |-> DefaultModel, temperature |-> PyFloat(10),
                     max_tokens |-> DefaultMaxTokens]

\* C17: after update_config, get_config reports the new value of every
\* configuration field the update named: model name, temperature, max_tokens.
C17_UpdateChangesFields ==
    \A i \in 1..Len(updated) :
        /\ updated[i][1] = "model" => py_eq(get_config.model, updated[i][2])
        /\ updated[i][1] = "temperature" =>
             py_eq(get_config.temperature, updated[i][2])
        /\ updated[i][1] = "max_tokens" =>
             py_eq(get_config.max_tokens, updated[i][2])

\* C18: the contentBlockStart, contentBlockDelta and contentBlockStop events
\* all carry content-block index 0, and one block at most is open: one
\* contentBlockStart at most, and every delta after it and before the stop.
C18_SingleBlockIndexZero ==
    /\ \A i \in 1..Len(events) :
         events[i].kind \in {"contentBlockStart", "contentBlockDelta",
                             "contentBlockStop"}
           => events[i].contentBlockIndex = 0
    /\ Cardinality({i \in 1..Len(events) : events[i].kind = "contentBlockStart"}) <= 1
    /\ Cardinality({i \in 1..Len(events) : events[i].kind = "contentBlockStop"}) <= 1
    /\ \A i \in 1..Len(events) :
         events[i].kind = "contentBlockDelta" =>
           /\ \E j \in 1..(i - 1) : events[j].kind = "contentBlockStart"
           /\ \A j \in 1..(i - 1) : events[j].kind # "contentBlockStop"

C18_Witness ==
    /\ pc = "contentBlockStop"
    /\ Len(events) = 5
    /\ events[3].kind = "contentBlockDelta"
    /\ events[4].kind = "contentBlockDelta"
    /\ events[4].contentBlockIndex = 0

\* C19: generate called again with the same messages and options, the
\* configuration being the same, sends the same request (model, messages,
\* temperature, max_tokens, extra options) as the call before, whatever the
\* backend answered to that one.
C19_SameRequestAgain ==
    (/\ previous.made
     /\ previous.messages = messages
     /\ previous.kwargs = kwargs
     /\ previous.config = called_with)
    => request = previous.request

C19_Witness ==
    /\ previous.made
    /\ previous.messages = messages
    /\ previous.kwargs = kwargs
    /\ previous.config = called_with
    /\ kwargs = <<<<"temperature", PyInt(0)>>>>
    /\ previous.result.status = "returned"
    /\ previous.result.value = PyStr("4")
    /\ result.status = "raised"
    /\ request = previous.request

\* C13: structured_output makes one generate call with the messages it was
\* given and returns the mapping {response: text} of the text generate
\* returned, whatever the schema.
C13_StructuredOutputWraps ==
    output.status # "none" =>
      /\ sent = 1
      /\ request.messages = format_messages(messages)
      /\ result.status = "returned" =>
           output = [status |-> "returned", raised |-> "none",
                     value |-> PyDict([response |-> result.value])]

\* C20: run calls the wrapped agent's run operation once, with the input and
\* stream=False, and returns the content of the response's message.
C20_RunCallsAgentRun ==
    run_result.status # "none" =>
      /\ invocations = <<[method |-> "run", args |-> <<user_input>>,
                          kwargs |-> <<<<"stream", PyBool(FALSE)>>>>]>>
      /\ (run_result.status = "returned" /\ hasattr(reply, "message")
          /\ hasattr(reply.attrs.message, "content")
          /\ reply.attrs.message.attrs.content.k = "str") =>
           run_result.value = reply.attrs.message.attrs.content

\* C21: after add_tool the wrapped agent's tool list holds the tools it had,
\* in their order, followed by every tool added, also when the agent had no
\* tools attribute before.
C21_AddedToolsKept ==
    (added # <<>> /\ resets = 0) =>
      /\ wrapped.tools # PyNone
      /\ wrapped.tools.items =
           (IF exposes THEN wrapped.given_tools ELSE <<>>) \o added

\* C22: reset_conversation puts in place a new agent with no messages, built
\* from the wrapper's model, the previous agent's system prompt, the
\* configured name and the previous agent's tools, the added ones among
\* them; the wrapper's model and config stay as they were.
C22_ResetKeepsAgent ==
    [][resets' # resets =>
         /\ wrapped'.messages = <<>>
         /\ wrapped'.model = wrapper.model
         /\ wrapped'.system_prompt = wrapped.system_prompt
         /\ wrapped'.name = wrapper.config.agent_name
         /\ wrapped'.given_tools = (IF wrapped.tools # PyNone
                                    THEN wrapped.tools.items
                                    ELSE wrapped.given_tools)
         /\ \A i \in 1..Len(added) :
              \E j \in 1..Len(wrapped'.given_tools) :
                  wrapped'.given_tools[j] = added[i]
         /\ wrapper' = wrapper]_vars

\* the value passed under a keyword, and whether the keyword is passed
given(kw, name) == {kw[i][2] : i \in {j \in 1..Len(kw) : kw[j][1] = name}}

\* C23: the session is created with the configured region always, with each
\* of access key id, secret access key and session token exactly when the
\* field is set (not None, not empty), and never with a None; the model is
\* built from that session, the model id, the temperature and max_tokens.
C23_SessionFromConfig ==
    bedrock_model # PyNone =>
      /\ given(boto_session, "region_name") = {aws_config.aws_region}
      /\ \A name \in {"aws_access_key_id", "aws_secret_access_key",
                      "aws_session_token"} :
           given(boto_session, name) =
             (IF aws_config[name] \in {PyNone, PyStr("")}
              THEN {} ELSE {aws_config[name]})
      /\ \A i \in 1..Len(boto_session) :
           /\ boto_session[i][2] # PyNone
           /\ \A j \in 1..Len(boto_session) :
                boto_session[i][1] = boto_session[j][1] => i = j
      /\ bedrock_model = [model_id |-> bedrock_config.bedrock_model_id,
                          boto_session |-> boto_session,
                          temperature |-> bedrock_config.bedrock_temperature,
                          max_tokens |-> bedrock_config.bedrock_max_tokens]

C23_Witness ==
    /\ bedrock_model # PyNone
    /\ aws_config.aws_access_key_id = PyStr("AKIA")
    /\ aws_config.aws_secret_access_key = PyNone
    /\ aws_config.aws_session_token = PyStr("")
    /\ Len(boto_session) = 2

C25_DeltasAreTextChunks ==
    LET delta_events == SelectSeq(events, LAMBDA e : e.kind = "contentBlockDelta")
        text_chunks == SelectSeq(chunks, LAMBDA c :
                         /\ "choices" \in DOMAIN c
                         /\ Len(c.choices) > 0
                         /\ c.choices[1].content \notin {PyNone, PyStr("")})
    IN  /\ Len(delta_events) = Len(text_chunks)
        /\ \A i \in 1..Len(delta_events) :
             PyStr(delta_events[i].text) = text_chunks[i].choices[1].content

C25_Witness ==
    /\ pc = "done"
    /\ chunks = <<[choices |-> <<Choice(PyStr(""))>>],
                  [choices |-> <<Choice(PyStr("b"))>>]>>
    /\ Len(events) = 5
    /\ events[3].text = "b"

\* C26: building the streaming request leaves the caller's input as it was:
\* after _format_messages_with_system the message list, every message and
\* every content block have the keys and values they had before the call.
C26_InputUnchanged ==
    op = "_format_messages_with_system" => messages = original

\* C27: the messageStop event of every completed stream carries the stop
\* reason end_turn, whatever finish reason the backend's chunks reported and
\* however many deltas came before.
C27_StopReasonEndTurn ==
    /\ \A i \in 1..Len(events) :
         events[i].kind = "messageStop" => events[i].stopReason = "end_turn"
    /\ pc = "done" =>
         events[Len(events)] = [kind |-> "messageStop", stopReason |-> "end_turn"]

C27_Witness ==
    /\ pc = "done"
    /\ Len(chunks) = 2
    /\ chunks[1].choices[1].content = PyStr("a")
    /\ chunks[2].choices[1].finish_reason = "length"
    /\ events[Len(events)].kind = "messageStop"

====
